---- MODULE Spec2Model ----
(***************************************************************************)
(* A model of imterm (src/imterm.go), an immediate-mode text UI engine.    *)
(* One action per exported call of type Imterm; the caller (the program    *)
(* that polls events and builds frames) is the environment.  Strings are   *)
(* sequences of byte values, as Go strings are.                            *)
(***************************************************************************)
EXTENDS Integers, Sequences, FiniteSets, TLC

\* ------------------------------------------------------------------ bounds
ScreenW == 4
ScreenH == 6
MaxLen == 3
FocusLen == 1
MaxRows == 3
MaxDepth == 2
MaxStack == 2
TypeLen == 4

\* ------------------------------------------------------- program constants
MouseNone == 0
MouseLeft == 1
MouseRight == 2
MouseMiddle == 3
MouseWheelUp == 4
MouseWheelDown == 5
MouseRelease == 6

ColorRed == 2
ColorGreen == 3
AttrBold == 512

KeyBackspace == 8
KeyEnter == 13
KeySpace == 32
KeyBackspace2 == 127
KeyDelete == 65522
KeyArrowLeft == 65515
KeyArrowRight == 65514

\* ------------------------------------------------------------------- state
VARIABLES
    curState, nextState, mouseState,      \* input router
    focusID, lastID, nextID,              \* focus and identity
    xPos, yPos, lastY, nextX, nextY,      \* layout cursor
    columnStack, columnWidth, columnX, columnY, columnMaxY,
    TermW, TermH, lastBox,
    widgetState,                          \* id -> persisted widget state
    panicked,                             \* a Go run-time panic ended the program
    inFrame,                              \* caller: between Start() and Finish()
    texts, toggles, selections,           \* caller: values carried frame to frame
    styleStack,                           \* style overrides pushed by the caller
    cells,                                \* SetCell calls of the latest Text or Gauge call
    tallest,                              \* per open StartColumns: the column it left and
                                          \* the lowest bottom edge placed since
    last,                                 \* the most recent call and what it returned
    keyUsers,                             \* Inputs the frame's key event has edited
    granted                               \* identities given focus by a click or SetFocus

input == <<curState, nextState, mouseState>>
ident == <<focusID, lastID, nextID>>
layout == <<xPos, yPos, lastY, nextX, nextY, columnStack, columnWidth,
            columnX, columnY, columnMaxY, lastBox>>
term == <<TermW, TermH>>
render == <<styleStack, cells>>
caller == <<texts, toggles, selections>>
vars == <<input, ident, layout, tallest, term, render, widgetState, panicked, inFrame, caller,
          last, keyUsers, granted>>

\* ----------------------------------------------------------------- helpers
Max(a, b) == IF a > b THEN a ELSE b

InputState == [mouseX |-> 0, mouseY |-> 0, mouseButton |-> MouseNone,
               keyPress |-> 0, chPress |-> 0]

Labels == {"", "a", "b", "l", "s"}

\* Simple check what mouse button was clicked in a region
CheckClick(x, y, w, h) ==
    IF /\ curState.mouseButton # 0
       /\ curState.mouseX >= x /\ curState.mouseX < x + w
       /\ curState.mouseY >= y /\ curState.mouseY < y + h
    THEN curState.mouseButton
    ELSE MouseNone

GetClick(x, y, w, h) ==
    IF /\ curState.mouseButton # 0
       /\ curState.mouseX >= x /\ curState.mouseX < x + w
       /\ curState.mouseY >= y /\ curState.mouseY < y + h
    THEN [mx |-> curState.mouseX - x, my |-> curState.mouseY - y,
          mb |-> curState.mouseButton]
    ELSE [mx |-> 0, my |-> 0, mb |-> MouseNone]

\* the identity the next widget call resolves to
getID(id) == IF nextID # "" THEN nextID ELSE id

\* the box getBox(w, h) places
Box(w, h) ==
    [x |-> xPos, y |-> yPos,
     w |-> IF w <= 0 THEN ((columnX + columnWidth) - xPos) + w ELSE w,
     h |-> IF h <= 0 THEN (TermH - yPos) + h ELSE h]

\* getBox's effect on the layout cursor
getBox(w, h) ==
    LET b == Box(w, h)
        ny == Max(yPos + b.h, nextY)
    IN /\ lastBox' = b
       /\ nextX' = xPos + b.w
       /\ lastY' = yPos
       /\ xPos' = columnX
       /\ yPos' = ny
       /\ columnMaxY' = Max(columnMaxY, ny)
       /\ tallest' = [i \in DOMAIN tallest |->
                          [tallest[i] EXCEPT !.bottom = Max(@, b.y + b.h)]]
       /\ UNCHANGED <<nextY, columnStack, columnWidth, columnX, columnY>>

\* the caller keeps a frame's widgets on the screen
Fits(w, h) == LET b == Box(w, h) IN b.h >= 0 /\ b.w >= 0 /\ yPos + b.h <= TermH

\* ---------------------------------------------------------------- New
Init ==
    /\ curState = InputState
    /\ nextState = InputState
    /\ mouseState = MouseNone
    /\ focusID = "" /\ lastID = "" /\ nextID = ""
    /\ xPos = 0 /\ yPos = 0 /\ lastY = 0 /\ nextX = 0 /\ nextY = 0
    /\ columnStack = <<>>
    /\ columnWidth = 0 /\ columnX = 0 /\ columnY = 0 /\ columnMaxY = 0
    /\ TermW = ScreenW /\ TermH = ScreenH
    /\ lastBox = [x |-> 0, y |-> 0, w |-> 0, h |-> 0]
    /\ widgetState = <<>>
    /\ styleStack = <<>>
    /\ cells = {}
    /\ tallest = <<>>
    /\ panicked = FALSE
    /\ inFrame = FALSE
    /\ texts = [l \in Labels |-> <<>>]
    /\ toggles = [l \in Labels |-> FALSE]
    /\ selections = [l \in Labels |-> <<>>]
    /\ last = [op |-> "New"]
    /\ keyUsers = {}
    /\ granted = {}

\* ------------------------------------------------------------ input router
\* Mouse without the edge filter
MouseForwardsHeld(x, y, button) ==
    /\ ~panicked
    /\ nextState' = [nextState EXCEPT !.mouseX = x, !.mouseY = y,
                                      !.mouseButton = button]
    /\ mouseState' = button
    /\ last' = [op |-> "Mouse", button |-> button, at |-> <<x, y>>]
    /\ UNCHANGED <<curState, ident, layout, tallest, term, render, widgetState, panicked,
                   inFrame, caller, keyUsers, granted>>

\* Mouse writing into the frame's input
MouseWritesCurrent(x, y, button) ==
    /\ ~panicked
    /\ IF mouseState # button \/ button = MouseWheelUp \/ button = MouseWheelDown
       THEN /\ curState' = [curState EXCEPT !.mouseX = x, !.mouseY = y,
                                            !.mouseButton = button]
            /\ mouseState' = button
       ELSE UNCHANGED <<curState, mouseState>>
    /\ last' = [op |-> "Mouse", button |-> button,
                at |-> IF mouseState # button \/ button = MouseWheelUp
                         \/ button = MouseWheelDown THEN <<x, y>> ELSE <<>>]
    /\ UNCHANGED <<nextState, ident, layout, tallest, term, render, widgetState, panicked,
                   inFrame, caller, keyUsers, granted>>

\* Mouse with the edge filter applied to wheel ticks too
MouseFiltersWheel(x, y, button) ==
    /\ ~panicked
    /\ IF mouseState # button
       THEN /\ nextState' = [nextState EXCEPT !.mouseX = x, !.mouseY = y,
                                              !.mouseButton = button]
            /\ mouseState' = button
       ELSE UNCHANGED <<nextState, mouseState>>
    /\ last' = [op |-> "Mouse", button |-> button,
                at |-> IF mouseState # button THEN <<x, y>> ELSE <<>>]
    /\ UNCHANGED <<curState, ident, layout, tallest, term, render, widgetState,
                   panicked, inFrame, caller, keyUsers, granted>>

\* set info about mouse actions
Mouse(x, y, button) ==
    /\ ~panicked
    /\ IF mouseState # button \/ button = MouseWheelUp \/ button = MouseWheelDown
       THEN /\ nextState' = [nextState EXCEPT !.mouseX = x, !.mouseY = y,
                                              !.mouseButton = button]
            /\ mouseState' = button
       ELSE UNCHANGED <<nextState, mouseState>>
    /\ last' = [op |-> "Mouse", button |-> button,
                at |-> IF mouseState # button \/ button = MouseWheelUp
                         \/ button = MouseWheelDown THEN <<x, y>> ELSE <<>>]
    /\ UNCHANGED <<curState, ident, layout, tallest, term, render, widgetState, panicked,
                   inFrame, caller, keyUsers, granted>>

\* Keyboard keeping what an earlier call buffered where this call has nothing
KeyboardMerges(key, ch) ==
    /\ ~panicked
    /\ nextState' = [nextState EXCEPT
                        !.keyPress = IF key # 0 THEN key ELSE @,
                        !.chPress = IF ch # 0 THEN ch ELSE @]
    /\ last' = [op |-> "Keyboard", key |-> key, ch |-> ch,
                replaced |-> nextState.keyPress # 0 \/ nextState.chPress # 0]
    /\ UNCHANGED <<curState, mouseState, ident, layout, tallest, term, render, widgetState,
                   panicked, inFrame, caller, keyUsers, granted>>

\* Set info about keyboard presses
Keyboard(key, ch) ==
    /\ ~panicked
    /\ nextState' = [nextState EXCEPT !.keyPress = key, !.chPress = ch]
    /\ last' = [op |-> "Keyboard", key |-> key, ch |-> ch,
                replaced |-> nextState.keyPress # 0 \/ nextState.chPress # 0]
    /\ UNCHANGED <<curState, mouseState, ident, layout, tallest, term, render, widgetState,
                   panicked, inFrame, caller, keyUsers, granted>>

\* ------------------------------------------------------------------ frames
\* Start without the reset of the next input
StartKeepsNext ==
    /\ ~panicked /\ ~inFrame
    /\ TermW' = ScreenW /\ TermH' = ScreenH
    /\ xPos' = 0 /\ yPos' = 0
    /\ nextX' = 0 /\ nextY' = 0 /\ lastY' = 0
    /\ curState' = nextState
    /\ nextState' = nextState
    /\ columnX' = 0 /\ columnY' = 0
    /\ columnMaxY' = 0
    /\ columnWidth' = ScreenW
    /\ columnStack' = <<>>
    /\ tallest' = <<>>
    /\ cells' = {}
    /\ inFrame' = TRUE
    /\ keyUsers' = {}
    /\ last' = [op |-> "Start"]
    /\ UNCHANGED <<mouseState, ident, lastBox, widgetState, styleStack,
                   panicked, caller, granted>>

\* Start a frame
Start ==
    /\ ~panicked /\ ~inFrame
    /\ TermW' = ScreenW /\ TermH' = ScreenH
    /\ xPos' = 0 /\ yPos' = 0
    /\ nextX' = 0 /\ nextY' = 0 /\ lastY' = 0
    /\ curState' = nextState
    /\ nextState' = InputState
    /\ columnX' = 0 /\ columnY' = 0
    /\ columnMaxY' = 0
    /\ columnWidth' = ScreenW
    /\ columnStack' = <<>>
    /\ tallest' = <<>>
    /\ cells' = {}
    /\ inFrame' = TRUE
    /\ keyUsers' = {}
    /\ last' = [op |-> "Start"]
    /\ UNCHANGED <<mouseState, ident, lastBox, widgetState, styleStack,
                   panicked, caller, granted>>

\* Finishes and renders the frame
Finish ==
    /\ ~panicked /\ inFrame
    /\ inFrame' = FALSE
    /\ last' = [op |-> "Finish"]
    /\ UNCHANGED <<input, ident, layout, tallest, term, render, widgetState, panicked, caller,
                   keyUsers, granted>>

\* ------------------------------------------------------------------- focus
\* Was the last object focused?
Focus == focusID = lastID

SetFocus(id) ==
    /\ ~panicked
    /\ focusID' = id
    /\ granted' = granted \cup {id}
    /\ last' = [op |-> "SetFocus"]
    /\ UNCHANGED <<input, lastID, nextID, layout, tallest, term, render, widgetState, panicked,
                   inFrame, caller, keyUsers>>

ID(id) ==
    /\ ~panicked
    /\ nextID' = id
    /\ last' = [op |-> "ID"]
    /\ UNCHANGED <<input, focusID, lastID, layout, tallest, term, render, widgetState, panicked,
                   inFrame, caller, keyUsers, granted>>

\* ----------------------------------------------------------------- columns
StartColumns(w) ==
    /\ ~panicked /\ inFrame
    /\ columnStack' = Append(columnStack, [x |-> columnX, y |-> columnY,
                                           maxy |-> columnMaxY, w |-> columnWidth])
    /\ columnY' = yPos
    /\ columnWidth' = w
    /\ tallest' = Append(tallest, [bottom |-> 0, x |-> columnX, w |-> columnWidth])
    /\ last' = [op |-> "StartColumns"]
    /\ UNCHANGED <<input, ident, xPos, yPos, lastY, nextX, nextY, columnX,
                   columnMaxY, lastBox, term, render, widgetState, panicked,
                   inFrame, caller, keyUsers, granted>>

\* columnStack[len(columnStack)-1] panics when no StartColumns is open
NextColumn(w) ==
    /\ ~panicked /\ inFrame
    /\ IF w = 0 /\ columnStack = <<>>
       THEN /\ panicked' = TRUE
            /\ columnX' = columnX + columnWidth
            /\ UNCHANGED <<columnWidth, yPos, xPos, nextY>>
       ELSE /\ columnX' = columnX + columnWidth
            /\ columnWidth' = IF w = 0
                              THEN columnStack[Len(columnStack)].w - columnX'
                              ELSE w
            /\ yPos' = columnY
            /\ xPos' = columnX'
            /\ nextY' = columnY
            /\ UNCHANGED panicked
    /\ last' = [op |-> "NextColumn"]
    /\ UNCHANGED <<input, ident, lastY, nextX, columnStack, columnY, columnMaxY,
                   lastBox, tallest, term, render, widgetState, inFrame, caller,
                   keyUsers, granted>>

FinishColumns ==
    /\ ~panicked /\ inFrame
    /\ IF columnStack = <<>>
       THEN /\ panicked' = TRUE
            /\ yPos' = columnMaxY
            /\ last' = [op |-> "FinishColumns"]
            /\ UNCHANGED <<xPos, columnStack, columnWidth, columnX, columnY,
                           columnMaxY, tallest>>
       ELSE LET top == columnStack[Len(columnStack)]
            IN /\ yPos' = columnMaxY
               /\ columnX' = top.x /\ columnY' = top.y
               /\ columnMaxY' = top.maxy /\ columnWidth' = top.w
               /\ columnStack' = SubSeq(columnStack, 1, Len(columnStack) - 1)
               /\ xPos' = top.x
               /\ tallest' = SubSeq(tallest, 1, Len(tallest) - 1)
               /\ last' = [op |-> "FinishColumns", group |-> tallest[Len(tallest)]]
               /\ UNCHANGED panicked
    /\ UNCHANGED <<input, ident, lastY, nextX, nextY, lastBox, term, render,
                   widgetState, inFrame, caller, keyUsers, granted>>

\* ------------------------------------------------------------------ styles
\* Class names are sequences of their dot-separated segments ("a.b" is
\* <<"a", "b">>, "" is <<>>); a rule name is a class name with or without the
\* ":focus" suffix.
Style0 == [FgColor |-> 0, BgColor |-> 0, FgStyle |-> 0, BgStyle |-> 0]

\* Merge in which the argument's set fields win
MergeOverwrites(s1, s2) ==
    [FgColor |-> IF s2.FgColor = 0 THEN s1.FgColor ELSE s2.FgColor,
     FgStyle |-> IF s2.FgStyle = 0 THEN s1.FgStyle ELSE s2.FgStyle,
     BgColor |-> IF s2.BgColor = 0 THEN s1.BgColor ELSE s2.BgColor,
     BgStyle |-> IF s2.BgStyle = 0 THEN s1.BgStyle ELSE s2.BgStyle]

Merge(s1, s2) ==
    [FgColor |-> IF s1.FgColor = 0 THEN s2.FgColor ELSE s1.FgColor,
     FgStyle |-> IF s1.FgStyle = 0 THEN s2.FgStyle ELSE s1.FgStyle,
     BgColor |-> IF s1.BgColor = 0 THEN s2.BgColor ELSE s1.BgColor,
     BgStyle |-> IF s1.BgStyle = 0 THEN s2.BgStyle ELSE s1.BgStyle]

Rule(name, focus) == [name |-> name, focus |-> focus]

\* the base table New builds
baseStyle ==
    (Rule(<<"border">>, TRUE) :> [Style0 EXCEPT !.FgStyle = AttrBold])
    @@ (Rule(<<"border", "label">>, TRUE) :> [Style0 EXCEPT !.FgStyle = AttrBold])
    @@ (Rule(<<"active", "border">>, FALSE) :> [Style0 EXCEPT !.FgColor = ColorGreen])
    @@ (Rule(<<"gauge", "bar", "on">>, FALSE) :> [Style0 EXCEPT !.BgColor = ColorRed])

\* val merged with the table's rule of that name, if it has one
Lookup(table, val, name, focus) ==
    IF Rule(name, focus) \in DOMAIN table
    THEN Merge(val, table[Rule(name, focus)])
    ELSE val

\* the class path stripped of trailing segments instead of leading ones
PartnameLeading(name, j) == SubSeq(name, 1, Len(name) - j)

\* name[splitlen:] after j pieces of strings.SplitAfter(name, ".")
Partname(name, j) == SubSeq(name, j + 1, Len(name))

\* the loop of GetBaseStyle over the pieces j .. of the name
RECURSIVE BaseParts(_, _, _, _, _)
BaseParts(table, val, name, focused, j) ==
    IF j > Max(Len(name), 1) THEN val
    ELSE LET v1 == IF focused THEN Lookup(table, val, Partname(name, j), TRUE)
                   ELSE val
             v2 == Lookup(table, v1, Partname(name, j), FALSE)
         IN BaseParts(table, v2, name, focused, j + 1)

\* GetBaseStyle over a given base table and focus
GetBaseStyleIn(table, name, focused) ==
    LET v1 == IF focused THEN Lookup(table, Style0, name, TRUE) ELSE Style0
        v2 == Lookup(table, v1, name, FALSE)
    IN BaseParts(table, v2, name, focused, 1)

\* s.Name == name || strings.HasSuffix(s.Name, "." + name)
NameMatches(sname, name) ==
    \/ sname = name
    \/ /\ name # <<>> /\ Len(sname) > Len(name)
       /\ SubSeq(sname, Len(sname) - Len(name) + 1, Len(sname)) = name

\* a | b on attributes
RECURSIVE BitOr(_, _)
BitOr(a, b) ==
    IF a = 0 THEN b
    ELSE IF b = 0 THEN a
    ELSE (IF a % 2 = 1 \/ b % 2 = 1 THEN 1 ELSE 0) + 2 * BitOr(a \div 2, b \div 2)

\* the loop of GetStyle over the override stack from entry i
RECURSIVE StackFrom(_, _, _, _, _)
StackFrom(stack, val, name, focused, i) ==
    IF i > Len(stack) THEN val
    ELSE LET e == stack[i]
             v1 == IF ~e.Name.focus /\ NameMatches(e.Name.name, name)
                   THEN Merge(e.Value, val) ELSE val
             v2 == IF focused /\ e.Name.focus /\ NameMatches(e.Name.name, name)
                   THEN Merge(e.Value, v1) ELSE v1
         IN StackFrom(stack, v2, name, focused, i + 1)

\* GetStyle where Focus() is focused
GetStyleFor(name, focused) ==
    LET val == StackFrom(styleStack, GetBaseStyleIn(baseStyle, name, focused),
                         name, focused, 1)
    IN [Fg |-> BitOr(val.FgColor, val.FgStyle),
        Bg |-> BitOr(val.BgColor, val.BgStyle)]

GetStyle(name) == GetStyleFor(name, Focus)

PushStyle(name, style) ==
    /\ ~panicked
    /\ styleStack' = Append(styleStack, [Name |-> name, Value |-> style])
    /\ last' = [op |-> "PushStyle"]
    /\ UNCHANGED <<input, ident, layout, tallest, term, cells, widgetState,
                   panicked, inFrame, caller, keyUsers, granted>>

\* styleStack[:len(styleStack)-num] panics when num is out of range
PopStyles(num) ==
    /\ ~panicked
    /\ IF num < 0 \/ num > Len(styleStack)
       THEN panicked' = TRUE /\ UNCHANGED styleStack
       ELSE /\ styleStack' = SubSeq(styleStack, 1, Len(styleStack) - num)
            /\ UNCHANGED panicked
    /\ last' = [op |-> "PopStyles"]
    /\ UNCHANGED <<input, ident, layout, tallest, term, cells, widgetState,
                   inFrame, caller, keyUsers, granted>>

\* ----------------------------------------------------------------- widgets
\* what every widget call records: a left press inside its box
Hit(b) == CheckClick(b.x, b.y, b.w, b.h) = MouseLeft

\* Place a clickable button
Button(w, h, label) ==
    /\ ~panicked /\ inFrame /\ Fits(w, h)
    /\ LET id == getID(label)
           b == Box(w, h)
           click == CheckClick(b.x, b.y, b.w, b.h) = MouseLeft
       IN /\ nextID' = ""
          /\ lastID' = id
          /\ getBox(w, h)
          /\ focusID' = IF click THEN id ELSE focusID
          /\ granted' = IF Hit(b) THEN granted \cup {id} ELSE granted
          /\ last' = [op |-> "Button", res |-> click]
    /\ UNCHANGED <<input, term, render, widgetState, panicked, inFrame, caller, keyUsers>>

\* Toggle that only ever switches on
ToggleSticks(w, h, label, state) ==
    /\ ~panicked /\ inFrame /\ Fits(w, h)
    /\ LET id == getID(label)
           b == Box(w, h)
           click == CheckClick(b.x, b.y, b.w, b.h) = MouseLeft
           res == IF click THEN TRUE ELSE state
       IN /\ nextID' = ""
          /\ lastID' = id
          /\ getBox(w, h)
          /\ focusID' = IF click THEN id ELSE focusID
          /\ granted' = IF Hit(b) THEN granted \cup {id} ELSE granted
          /\ toggles' = [toggles EXCEPT ![label] = res]
          /\ last' = [op |-> "Toggle", arg |-> state, res |-> res]
    /\ UNCHANGED <<input, term, render, widgetState, panicked, inFrame, texts,
                   selections, keyUsers>>

\* Place a toggleable button; the caller stores what it returns
Toggle(w, h, label, state) ==
    /\ ~panicked /\ inFrame /\ Fits(w, h)
    /\ LET id == getID(label)
           b == Box(w, h)
           click == CheckClick(b.x, b.y, b.w, b.h) = MouseLeft
           res == IF click THEN ~state ELSE state
       IN /\ nextID' = ""
          /\ lastID' = id
          /\ getBox(w, h)
          /\ focusID' = IF click THEN id ELSE focusID
          /\ granted' = IF Hit(b) THEN granted \cup {id} ELSE granted
          /\ toggles' = [toggles EXCEPT ![label] = res]
          /\ last' = [op |-> "Toggle", arg |-> state, res |-> res]
    /\ UNCHANGED <<input, term, render, widgetState, panicked, inFrame, texts,
                   selections, keyUsers>>

\* ------------------------------------------------------- widget state store
\* getState(id, def): the stored state, created from def on first use
getState(id, def) == IF id \in DOMAIN widgetState THEN widgetState[id] ELSE def

\* the type assertion on what getState returned
SameKind(id, kind) == id \in DOMAIN widgetState => widgetState[id].kind = kind

\* widgetState with id's entry set
Stored(id, st) == [k \in DOMAIN widgetState \cup {id} |->
                      IF k = id THEN st ELSE widgetState[k]]

\* ------------------------------------------------------------------- Input
Whitespace == {10, 9, 32}

\* strings.IndexAny(text[i:], "\n\t "), or len(text[i:]) when there is none
RECURSIVE NextSpace(_, _, _)
NextSpace(text, i, j) ==
    IF i + j >= Len(text) THEN Len(text) - i
    ELSE IF text[i + j + 1] \in Whitespace THEN j
    ELSE NextSpace(text, i, j + 1)

\* text[:n] and text[n:] of a Go string
\* the whole text instead of text[:n]
PrefixWhole(text, n) == text
Prefix(text, n) == SubSeq(text, 1, n)
Suffix(text, n) == SubSeq(text, n + 1, Len(text))

\* The layout pass of Input over the text, from byte i on: it maps a pending
\* click (mx, my) to a text index.  p = [i, cx, cy, ns, mx, c].
RECURSIVE WrapPass(_, _, _, _, _)
WrapPass(text, w, h, my, p) ==
    IF p.i >= Len(text) THEN p
    ELSE
    LET r == text[p.i + 1]
        hit == p.mx >= 0 /\ p.cx = p.mx /\ p.cy = my
        mx1 == IF hit THEN -1 ELSE p.mx
        c1 == IF hit THEN p.i ELSE p.c
    IN IF r = 10
       THEN LET cy2 == p.cy + 1
                below == mx1 >= 0 /\ cy2 > my
                q == [i |-> p.i + 1, cx |-> 0, cy |-> cy2, ns |-> p.ns,
                      mx |-> IF below THEN -1 ELSE mx1,
                      c |-> IF below THEN p.i ELSE c1]
            IN IF cy2 >= h - 2 THEN q ELSE WrapPass(text, w, h, my, q)
       ELSE LET look == p.i >= p.ns
                ns0 == NextSpace(text, p.i, 0)
                wrap == look /\ ns0 > (w - 2) - p.cx
                cx2 == IF wrap THEN 0 ELSE p.cx
                cy2 == IF wrap THEN p.cy + 1 ELSE p.cy
                below == wrap /\ mx1 >= 0 /\ cy2 > my
                mx2 == IF below THEN -1 ELSE mx1
                c2 == IF below THEN p.i ELSE c1
                ns2 == IF look THEN ns0 + p.i ELSE p.ns
                full == cx2 >= w - 2
                cx3 == IF full THEN 0 ELSE cx2
                cy3 == IF full THEN cy2 + 1 ELSE cy2
            IN IF wrap /\ cy2 >= h - 2
               THEN [i |-> p.i, cx |-> cx2, cy |-> cy2, ns |-> p.ns,
                     mx |-> mx2, c |-> c2]
               ELSE IF full /\ cy3 >= h - 2
               THEN [i |-> p.i, cx |-> cx3, cy |-> cy3, ns |-> ns2,
                     mx |-> mx2, c |-> c2]
               ELSE WrapPass(text, w, h, my,
                             [i |-> p.i + 1, cx |-> cx3 + 1, cy |-> cy3,
                              ns |-> ns2, mx |-> mx2, c |-> c2])

\* ClickIndex one past the end for a click below the text
ClickIndexPastEnd(text, w, h, mx, my, c) ==
    LET p == WrapPass(text, w, h, my,
                      [i |-> 0, cx |-> 0, cy |-> 0, ns |-> 0, mx |-> mx, c |-> c])
    IN IF p.mx >= 0 THEN Len(text) + 1 ELSE p.c

\* the cursor index after the layout pass: a click left pending goes to the end
ClickIndex(text, w, h, mx, my, c) ==
    LET p == WrapPass(text, w, h, my,
                      [i |-> 0, cx |-> 0, cy |-> 0, ns |-> 0, mx |-> mx, c |-> c])
    IN IF p.mx >= 0 THEN Len(text) ELSE p.c

\* EditKey in which ArrowRight leaves the cursor where it is
EditKeyRightStays(text, c) ==
    LET ch == curState.chPress
        key == curState.keyPress
        ins(b) == IF c > Len(text)
                  THEN [text |-> text, c |-> c, panic |-> TRUE]
                  ELSE [text |-> Prefix(text, c) \o <<b>> \o Suffix(text, c),
                        c |-> c + 1, panic |-> FALSE]
        same == [text |-> text, c |-> c, panic |-> FALSE]
    IN IF ch # 0 THEN ins(ch)
       ELSE IF key = 0 THEN same
       ELSE IF key \in {KeyBackspace, KeyBackspace2}
       THEN IF c > 0
            THEN IF c > Len(text)
                 THEN [text |-> text, c |-> c, panic |-> TRUE]
                 ELSE [text |-> Prefix(text, c - 1) \o Suffix(text, c),
                       c |-> c - 1, panic |-> FALSE]
            ELSE same
       ELSE IF key = KeyDelete
       THEN IF c + 1 > Len(text)
            THEN [text |-> text, c |-> c, panic |-> TRUE]
            ELSE [text |-> Prefix(text, c) \o Suffix(text, c + 1),
                  c |-> c, panic |-> FALSE]
       ELSE IF key = KeySpace THEN ins(32)
       ELSE IF key = KeyEnter THEN ins(10)
       ELSE IF key = KeyArrowLeft
       THEN [text |-> text, c |-> IF c > 0 THEN c - 1 ELSE c, panic |-> FALSE]
       ELSE IF key = KeyArrowRight
       THEN same
       ELSE same

\* The key handling of a focused Input on text with cursor c:
\* [text, c, panic]; panic is a slice bound out of range.
EditKey(text, c) ==
    LET ch == curState.chPress
        key == curState.keyPress
        ins(b) == IF c > Len(text)
                  THEN [text |-> text, c |-> c, panic |-> TRUE]
                  ELSE [text |-> Prefix(text, c) \o <<b>> \o Suffix(text, c),
                        c |-> c + 1, panic |-> FALSE]
        same == [text |-> text, c |-> c, panic |-> FALSE]
    IN IF ch # 0 THEN ins(ch)
       ELSE IF key = 0 THEN same
       ELSE IF key \in {KeyBackspace, KeyBackspace2}
       THEN IF c > 0
            THEN IF c > Len(text)
                 THEN [text |-> text, c |-> c, panic |-> TRUE]
                 ELSE [text |-> Prefix(text, c - 1) \o Suffix(text, c),
                       c |-> c - 1, panic |-> FALSE]
            ELSE same
       ELSE IF key = KeyDelete
       THEN IF c + 1 > Len(text)
            THEN [text |-> text, c |-> c, panic |-> TRUE]
            ELSE [text |-> Prefix(text, c) \o Suffix(text, c + 1),
                  c |-> c, panic |-> FALSE]
       ELSE IF key = KeySpace THEN ins(32)
       ELSE IF key = KeyEnter THEN ins(10)
       ELSE IF key = KeyArrowLeft
       THEN [text |-> text, c |-> IF c > 0 THEN c - 1 ELSE c, panic |-> FALSE]
       ELSE IF key = KeyArrowRight
       THEN [text |-> text, c |-> IF c < Len(text) THEN c + 1 ELSE c,
             panic |-> FALSE]
       ELSE same

\* Input that handles the key event whether or not it has the focus
InputIgnoresFocus(w, h, label, text) ==
    /\ ~panicked /\ inFrame /\ Fits(w, h)
    /\ LET id == getID(label)
           b == Box(w, h)
           mismatch == ~SameKind(id, "input")
           def == [kind |-> "input", cPos |-> -1]
           state == IF mismatch THEN def ELSE getState(id, def)
           c0 == IF state.cPos = -1 THEN Len(text) ELSE state.cPos
           click == CheckClick(b.x, b.y, b.w, b.h) = MouseLeft
           mx == IF click
                 THEN LET m == curState.mouseX - (b.x + 1)
                      IN IF m < 0 THEN 0 ELSE IF m > b.w - 2 THEN b.w - 2 ELSE m
                 ELSE -1
           my == IF click
                 THEN LET m == curState.mouseY - (b.y + 1)
                      IN IF m < 0 THEN 0 ELSE IF m > b.h - 2 THEN b.h - 2 ELSE m
                 ELSE -1
           focus == IF click THEN id ELSE focusID
           ed == EditKey(text, c0)
           c1 == IF ed.c < 0 THEN 0
                 ELSE IF ed.c > Len(ed.text) THEN Len(ed.text) ELSE ed.c
           c2 == ClickIndex(ed.text, b.w, b.h, mx, my, c1)
       IN /\ nextID' = ""
          /\ lastID' = id
          /\ getBox(w, h)
          /\ IF mismatch
             THEN /\ panicked' = TRUE
                  /\ UNCHANGED <<focusID, widgetState, texts, keyUsers, granted>>
                  /\ last' = [op |-> "Input", arg |-> text, res |-> text]
             ELSE /\ focusID' = focus
                  /\ granted' = IF click THEN granted \cup {id} ELSE granted
                  /\ IF ed.panic
                     THEN /\ panicked' = TRUE
                          /\ widgetState' = Stored(id, [state EXCEPT !.cPos = c0])
                          /\ UNCHANGED <<texts, keyUsers>>
                          /\ last' = [op |-> "Input", arg |-> text, res |-> text]
                     ELSE /\ panicked' = FALSE
                          /\ widgetState' = Stored(id, [state EXCEPT !.cPos = c2])
                          /\ texts' = [texts EXCEPT ![label] = ed.text]
                          /\ keyUsers' = IF ed.text # text \/ ed.c # c0
                                         THEN keyUsers \cup {id} ELSE keyUsers
                          /\ last' = [op |-> "Input", arg |-> text,
                                      res |-> ed.text]
    /\ UNCHANGED <<input, term, render, inFrame, toggles, selections>>

\* Place an editable text area; the caller stores the text it returns
Input(w, h, label, text) ==
    /\ ~panicked /\ inFrame /\ Fits(w, h)
    /\ LET id == getID(label)
           b == Box(w, h)
           mismatch == ~SameKind(id, "input")
           def == [kind |-> "input", cPos |-> -1]
           state == IF mismatch THEN def ELSE getState(id, def)
           c0 == IF state.cPos = -1 THEN Len(text) ELSE state.cPos
           click == CheckClick(b.x, b.y, b.w, b.h) = MouseLeft
           mx == IF click
                 THEN LET m == curState.mouseX - (b.x + 1)
                      IN IF m < 0 THEN 0 ELSE IF m > b.w - 2 THEN b.w - 2 ELSE m
                 ELSE -1
           my == IF click
                 THEN LET m == curState.mouseY - (b.y + 1)
                      IN IF m < 0 THEN 0 ELSE IF m > b.h - 2 THEN b.h - 2 ELSE m
                 ELSE -1
           focus == IF click THEN id ELSE focusID
           ed == IF focus = id THEN EditKey(text, c0)
                 ELSE [text |-> text, c |-> c0, panic |-> FALSE]
           c1 == IF ed.c < 0 THEN 0
                 ELSE IF ed.c > Len(ed.text) THEN Len(ed.text) ELSE ed.c
           c2 == ClickIndex(ed.text, b.w, b.h, mx, my, c1)
       IN /\ nextID' = ""
          /\ lastID' = id
          /\ getBox(w, h)
          /\ IF mismatch
             THEN /\ panicked' = TRUE
                  /\ UNCHANGED <<focusID, widgetState, texts, keyUsers, granted>>
                  /\ last' = [op |-> "Input", arg |-> text, res |-> text]
             ELSE /\ focusID' = focus
                  /\ granted' = IF click THEN granted \cup {id} ELSE granted
                  /\ IF ed.panic
                     THEN /\ panicked' = TRUE
                          /\ widgetState' = Stored(id, [state EXCEPT !.cPos = c0])
                          /\ UNCHANGED <<texts, keyUsers>>
                          /\ last' = [op |-> "Input", arg |-> text, res |-> text]
                     ELSE /\ panicked' = FALSE
                          /\ widgetState' = Stored(id, [state EXCEPT !.cPos = c2])
                          /\ texts' = [texts EXCEPT ![label] = ed.text]
                          /\ keyUsers' = IF ed.text # text \/ ed.c # c0
                                         THEN keyUsers \cup {id} ELSE keyUsers
                          /\ last' = [op |-> "Input", arg |-> text,
                                      res |-> ed.text]
    /\ UNCHANGED <<input, term, render, inFrame, toggles, selections>>

\* ------------------------------------------------------------------ Buffer
\* one axis of Buffer's scrolling: back and forward glyph clicks (and wheel
\* ticks when given), then the clamp when the view ends past the content
ScrollAxis(scroll, view, n, back, fwd) ==
    LET s1 == IF scroll > 0 THEN scroll - back ELSE scroll
    IN IF s1 + view < n THEN s1 + fwd
       ELSE IF s1 + view > n THEN Max(n - (view + 2) - 2, 0)
       ELSE s1

One(c) == IF c THEN 1 ELSE 0

\* Place a buffer.  Not editable, but responds to click events.
Buffer(w, h, label, buffer) ==
    /\ ~panicked /\ inFrame /\ Fits(w, h)
    /\ LET id == getID(label)
           b == Box(w, h)
           mismatch == ~SameKind(id, "buffer")
           state == getState(id, [kind |-> "buffer", xscroll |-> 0, yscroll |-> 0])
           box == CheckClick(b.x, b.y, b.w, b.h)
           up == One(CheckClick(b.x + b.w - 1, b.y + 1, 1, 1) = MouseLeft)
                 + One(box = MouseWheelUp)
           down == One(CheckClick(b.x + b.w - 1, b.y + b.h - 2, 1, 1) = MouseLeft)
                   + One(box = MouseWheelDown)
           left == One(CheckClick(b.x + 1, b.y + b.h - 1, 1, 1) = MouseLeft)
           right == One(CheckClick(b.x + b.w - 2, b.y + b.h - 1, 1, 1) = MouseLeft)
           ys == ScrollAxis(state.yscroll, b.h - 2, Len(buffer), up, down)
           xs == ScrollAxis(state.xscroll, b.w - 2, Len(buffer[1]), left, right)
       IN /\ nextID' = ""
          /\ lastID' = id
          /\ getBox(w, h)
          /\ granted' = IF Hit(b) THEN granted \cup {id} ELSE granted
          /\ IF mismatch \/ Len(buffer) = 0
             THEN /\ panicked' = TRUE
                  /\ widgetState' = IF mismatch THEN widgetState
                                    ELSE Stored(id, [state EXCEPT !.yscroll = ys])
                  /\ last' = [op |-> "Buffer", key |-> id, n |-> Len(buffer)]
             ELSE /\ panicked' = FALSE
                  /\ widgetState' = Stored(id, [state EXCEPT !.yscroll = ys,
                                                             !.xscroll = xs])
                  /\ last' = [op |-> "Buffer", key |-> id, n |-> Len(buffer),
                              res |-> GetClick(b.x + 1, b.y + 1, b.w - 2, b.h - 2)]
    /\ UNCHANGED <<input, focusID, term, render, inFrame, caller, keyUsers>>

\* ----------------------------------------------------------------- drawing
\* screen.SetCell(x, y, _, s.Fg, s.Bg)
SetCell(x, y, s) == [x |-> x, y |-> y, fg |-> s.Fg, bg |-> s.Bg]

hLine(x, y, w, s) == {SetCell(x + i, y, s) : i \in 0 .. w}
vLine(x, y, h, s) == {SetCell(x, y + i, s) : i \in 0 .. h}

\* labels of the model are at most one byte long
LabelLen(label) == IF label = "" THEN 0 ELSE 1

\* the cells frame(b, label, class) sets; class is the border's class name
frame(b, label, class, focused) ==
    LET s == GetStyleFor(class, focused)
        ls == GetStyleFor(class \o <<"label">>, focused)
        n == Max(0, IF LabelLen(label) < b.w - 4 THEN LabelLen(label) ELSE b.w - 4)
    IN hLine(b.x + 1, b.y, b.w - 3, s)
       \cup hLine(b.x + 1, b.y + b.h - 1, b.w - 3, s)
       \cup vLine(b.x, b.y + 1, b.h - 3, s)
       \cup vLine(b.x + b.w - 1, b.y + 1, b.h - 3, s)
       \cup {SetCell(b.x, b.y, s), SetCell(b.x + b.w - 1, b.y, s),
             SetCell(b.x, b.y + b.h - 1, s),
             SetCell(b.x + b.w - 1, b.y + b.h - 1, s)}
       \cup IF label # ""
            THEN {SetCell(b.x + 1, b.y, s), SetCell(b.x + n + 2, b.y, s)}
                 \cup {SetCell(b.x + i + 2, b.y, ls) : i \in 0 .. n - 1}
            ELSE {}

\* -------------------------------------------------------------------- Text
\* the drawing loop of Text over wrapped from index i: whether it stopped with
\* more lines below the box
RECURSIVE TextMore(_, _, _, _, _)
TextMore(wrapped, i, cy, scroll, view) ==
    IF i > Len(wrapped) THEN FALSE
    ELSE IF wrapped[i] = 10
         THEN IF (cy + 1) - scroll >= view THEN TRUE
              ELSE TextMore(wrapped, i + 1, cy + 1, scroll, view)
         ELSE TextMore(wrapped, i + 1, cy, scroll, view)

\* the cells that loop sets
RECURSIVE TextCells(_, _, _, _, _, _, _)
TextCells(wrapped, i, cx, cy, scroll, b, s) ==
    IF i > Len(wrapped) THEN {}
    ELSE IF wrapped[i] = 10
         THEN IF (cy + 1) - scroll >= b.h - 2 THEN {}
              ELSE TextCells(wrapped, i + 1, 0, cy + 1, scroll, b, s)
         ELSE (IF cy - scroll >= 0
               THEN {SetCell(b.x + 1 + cx, b.y + 1 + cy - scroll, s)} ELSE {})
              \cup TextCells(wrapped, i + 1, cx + 1, cy, scroll, b, s)

\* Place a text label.  Not editable.  wrapped is what wordwrap.WrapString
\* (a library outside the repository) made of the text for width b.w - 2.
Text(w, h, label, wrapped) ==
    /\ ~panicked /\ inFrame /\ Fits(w, h)
    /\ LET id == getID(label)
           b == Box(w, h)
           focused == focusID = id
           s == GetStyleFor(<<"text", "text">>, focused)
           mismatch == ~SameKind(id, "text")
           state == getState(id, [kind |-> "text", scroll |-> 0])
           box == CheckClick(b.x, b.y, b.w, b.h)
           s1 == IF state.scroll > 0
                 THEN state.scroll
                      - One(CheckClick(b.x + b.w - 1, b.y + 1, 1, 1) = MouseLeft)
                      - One(box = MouseWheelUp)
                 ELSE state.scroll
           more == TextMore(wrapped, 1, 0, s1, b.h - 2)
           s2 == IF more
                 THEN s1 + One(CheckClick(b.x + b.w - 1, b.y + b.h - 2, 1, 1) = MouseLeft)
                         + One(box = MouseWheelDown)
                 ELSE s1
       IN /\ nextID' = ""
          /\ lastID' = id
          /\ getBox(w, h)
          /\ granted' = IF Hit(b) THEN granted \cup {id} ELSE granted
          /\ panicked' = mismatch
          /\ IF mismatch
             THEN /\ cells' = frame(b, label, <<"text", "border">>, focused)
                  /\ UNCHANGED widgetState
             ELSE /\ cells' = frame(b, label, <<"text", "border">>, focused)
                              \cup {SetCell(b.x + b.w - 1, b.y + 1, s),
                                    SetCell(b.x + b.w - 1, b.y + b.h - 2, s)}
                              \cup TextCells(wrapped, 1, 0, 0, s1, b, s)
                  /\ widgetState' = Stored(id, [state EXCEPT !.scroll = s2])
          /\ last' = [op |-> "Text", arg |-> wrapped,
                      was |-> IF mismatch THEN 0 ELSE state.scroll]
    /\ UNCHANGED <<input, focusID, term, styleStack, inFrame, caller, keyUsers>>

\* ------------------------------------------------------------------- Gauge
\* float32(cx)/float32(w-1) >= percent, percent being num/den with den > 0;
\* exact for the small widths and the quarters used here
GaugeOff(cx, w, percent) == cx * percent.den >= percent.num * (w - 1)

\* Place a gauge, percent is a float from 0-1.  The overlay changes the
\* characters of some cells, not their place or style.
Gauge(w, h, label, percent, overlay) ==
    /\ ~panicked /\ inFrame /\ Fits(w, h)
    /\ LET id == getID(label)
           b == Box(w, h)
           focused == focusID = id
           on == GetStyleFor(<<"gauge", "bar", "on">>, focused)
           off == GetStyleFor(<<"gauge", "bar", "off">>, focused)
           style(cx) == IF \E c \in 0 .. cx : GaugeOff(c, b.w, percent)
                        THEN off ELSE on
       IN /\ nextID' = ""
          /\ lastID' = id
          /\ getBox(w, h)
          /\ cells' = frame(b, label, <<"gauge", "border">>, focused)
                      \cup {SetCell(cx + b.x + 1, cy + b.y + 1, style(cx)) :
                               cx \in 0 .. b.w - 3, cy \in 0 .. b.h - 3}
          /\ last' = [op |-> "Gauge", percent |-> percent]
    /\ UNCHANGED <<input, focusID, term, styleStack, widgetState, panicked,
                   inFrame, caller, keyUsers, granted>>

\* -------------------------------------------------------------------- List
\* the scroll glyphs of List and SelectableList: a left click on the up glyph,
\* then one on the down glyph, each when there is somewhere to scroll to
ListScroll(scroll, b, n) ==
    LET s1 == IF scroll > 0 /\ CheckClick(b.x + b.w - 1, b.y + 1, 1, 1) = MouseLeft
              THEN scroll - 1 ELSE scroll
    IN IF s1 < n - (b.h - 2)
          /\ CheckClick(b.x + b.w - 1, b.y + b.h - 2, 1, 1) = MouseLeft
       THEN s1 + 1 ELSE s1

\* the key List and SelectableList store their state under
ListKey(id, label) == label

\* Place a list area, user can scroll if there are too many items
List(w, h, label, contents) ==
    /\ ~panicked /\ inFrame /\ Fits(w, h)
    /\ LET id == getID(label)
           b == Box(w, h)
           key == ListKey(id, label)
           mismatch == ~SameKind(key, "list")
           state == getState(key, [kind |-> "list", scroll |-> 0])
       IN /\ nextID' = ""
          /\ lastID' = id
          /\ getBox(w, h)
          /\ granted' = IF Hit(b) THEN granted \cup {id} ELSE granted
          /\ panicked' = mismatch
          /\ widgetState' =
                IF mismatch THEN widgetState
                ELSE Stored(key, [state EXCEPT
                                    !.scroll = ListScroll(state.scroll, b, Len(contents))])
          /\ last' = [op |-> "List", key |-> key, n |-> Len(contents)]
    /\ UNCHANGED <<input, focusID, term, render, inFrame, caller, keyUsers>>

\* ---------------------------------------------------------- SelectableList
\* the index of the first v in selected, 0 when there is none
RECURSIVE IndexOf(_, _, _)
IndexOf(selected, v, i) ==
    IF i > Len(selected) THEN 0
    ELSE IF selected[i] = v THEN i
    ELSE IndexOf(selected, v, i + 1)

\* RemoveAt one element too far
RemoveAfter(selected, i) == SubSeq(selected, 1, i) \o SubSeq(selected, i + 2, Len(selected))

\* append(selected[:selindex], selected[selindex+1:]...), selindex = i - 1
RemoveAt(selected, i) == SubSeq(selected, 1, i - 1) \o SubSeq(selected, i + 1, Len(selected))

\* the row loop of SelectableList from row cy on: a left click on a row
\* toggles its index in selected
RECURSIVE SelectRows(_, _, _, _, _)
SelectRows(b, scroll, n, cy, selected) ==
    IF cy >= b.h - 2 \/ cy + scroll >= n THEN selected
    ELSE LET i == IndexOf(selected, cy + scroll, 1)
             clicked == CheckClick(b.x + 1, b.y + cy + 1, b.w - 2, 1) = MouseLeft
             sel == IF ~clicked THEN selected
                    ELSE IF i # 0 THEN RemoveAt(selected, i)
                    ELSE Append(selected, cy + scroll)
         IN SelectRows(b, scroll, n, cy + 1, sel)

\* Place a selectable list; the caller stores the selection it returns
SelectableList(w, h, label, contents, selected) ==
    /\ ~panicked /\ inFrame /\ Fits(w, h)
    /\ LET id == getID(label)
           b == Box(w, h)
           key == ListKey(id, label)
           mismatch == ~SameKind(key, "selectableList")
           state == getState(key, [kind |-> "selectableList", scroll |-> 0])
           scroll == ListScroll(state.scroll, b, Len(contents))
           res == SelectRows(b, scroll, Len(contents), 0, selected)
       IN /\ nextID' = ""
          /\ lastID' = id
          /\ getBox(w, h)
          /\ focusID' = IF Hit(b) THEN id ELSE focusID
          /\ granted' = IF Hit(b) THEN granted \cup {id} ELSE granted
          /\ panicked' = mismatch
          /\ widgetState' = IF mismatch THEN widgetState
                            ELSE Stored(key, [state EXCEPT !.scroll = scroll])
          /\ selections' = IF mismatch THEN selections
                           ELSE [selections EXCEPT ![label] = res]
          /\ last' = [op |-> "SelectableList", key |-> key, n |-> Len(contents),
                      arg |-> selected, res |-> IF mismatch THEN selected ELSE res]
    /\ UNCHANGED <<input, term, render, inFrame, texts, toggles, keyUsers>>

\* ---------------------------------------------------------- specifications
\* list contents and buffers of n rows
Rows(n) == [i \in 1 .. n |-> <<97>>]
Cells(n, m) == [i \in 1 .. n |-> [k \in 1 .. m |-> 97]]

\* The input router with a Button above or below a Toggle: any interleaving
\* of events, frames and widget calls.  The mouse is on a row inside the
\* first or the second widget of the frame.
RouterXs == 0 .. 1
RouterYs == {1, 4}
RouterButtons == {MouseLeft, MouseRelease}

DoMouse == \E x \in RouterXs, y \in RouterYs, b \in RouterButtons : Mouse(x, y, b)
DoKeyboard == Keyboard(0, 97)
DoButton == \E w \in {0, 1} : Button(w, 3, "a")
DoToggle == Toggle(0, 3, "b", toggles["b"])

Next ==
    \/ Start
    \/ Finish
    \/ DoMouse
    \/ DoKeyboard
    \/ DoButton
    \/ DoToggle

Spec == Init /\ [][Next]_vars

\* One Input edited by keys, characters and clicks: the caller polls one
\* event, then builds a frame.
InputXs == 1 .. ScreenW - 1
InputYs == 1 .. 3
InputKeys == {KeyBackspace, KeyDelete, KeySpace, KeyEnter, KeyArrowLeft,
              KeyArrowRight}

InputClick == /\ nextState = InputState
              /\ \E x \in InputXs, y \in InputYs : Mouse(x, y, MouseLeft)
InputRelease == nextState = InputState /\ Mouse(0, 0, MouseRelease)
InputKey == nextState = InputState /\ \E k \in InputKeys : Keyboard(k, 0)
InputChar == nextState = InputState /\ Keyboard(0, 97)
DoInput == Input(0, 4, "a", texts["a"]) /\ Len(texts'["a"]) <= MaxLen

NextInput ==
    \/ Start
    \/ Finish
    \/ InputClick
    \/ InputRelease
    \/ InputKey
    \/ InputChar
    \/ DoInput

SpecInput == Init /\ [][NextInput]_vars

\* Two Inputs in a frame, with clicks and characters in any interleaving.
FocusClick == \E y \in RouterYs : Mouse(1, y, MouseLeft)
FocusRelease == Mouse(0, 0, MouseRelease)
FocusChar == Keyboard(0, 97)
FocusInput == \E l \in {"a", "b"} :
                 Input(0, 3, l, texts[l]) /\ Len(texts'[l]) <= FocusLen

NextFocus ==
    \/ Start
    \/ Finish
    \/ FocusClick
    \/ FocusRelease
    \/ FocusChar
    \/ FocusInput

SpecFocus == Init /\ [][NextFocus]_vars

\* A fresh engine whose caller also places a Button with the empty label.
FreshButton == \E l \in {"", "a"} : Button(0, 3, l)
FreshSetFocus == SetFocus("a")

NextFresh ==
    \/ Start
    \/ Finish
    \/ FocusClick
    \/ FocusRelease
    \/ FreshButton
    \/ FreshSetFocus

SpecFresh == Init /\ [][NextFresh]_vars

\* The scrolling views: one List, SelectableList or Buffer a frame, of
\* changing height and content, with clicks and wheel ticks on the scroll
\* glyphs.
ScrollYs == 1 .. 3
ScrollHeights == {4, 5}

ScrollClick == \E y \in ScrollYs : Mouse(ScreenW - 1, y, MouseLeft)
ScrollWheel == \E b \in {MouseWheelUp, MouseWheelDown} : Mouse(1, 1, b)
ScrollRelease == Mouse(0, 0, MouseRelease)
ScrollList == \E h \in ScrollHeights, n \in 0 .. MaxRows : List(0, h, "l", Rows(n))
ScrollSelectableList ==
    \E h \in ScrollHeights, n \in 0 .. MaxRows :
        SelectableList(0, h, "s", Rows(n), selections["s"])
ScrollBuffer == \E h \in ScrollHeights, n \in 1 .. MaxRows :
                   Buffer(0, h, "b", Cells(n, 1))

NextScroll ==
    \/ Start
    \/ Finish
    \/ ScrollClick
    \/ ScrollWheel
    \/ ScrollRelease
    \/ ScrollList
    \/ ScrollSelectableList
    \/ ScrollBuffer

SpecScroll == Init /\ [][NextScroll]_vars

\* A SelectableList of five rows, three of them visible, with clicks on the
\* rows and on the scroll glyphs.
SelectXs == {1, ScreenW - 1}
SelectYs == 1 .. 3

SelectClick == \E x \in SelectXs, y \in SelectYs : Mouse(x, y, MouseLeft)
SelectList == SelectableList(0, 5, "s", Rows(5), selections["s"])

NextSelect ==
    \/ Start
    \/ Finish
    \/ SelectClick
    \/ ScrollRelease
    \/ SelectList

SpecSelect == Init /\ [][NextSelect]_vars

\* A List and a Buffer placed under identity overrides, with clicks on
\* their scroll glyphs.
IdentityID == \E id \in {"x", "y"} : ID(id)
IdentityClick == \E b \in RouterButtons : Mouse(ScreenW - 1, 1, b)
IdentityList == List(0, 3, "l", Rows(3))
IdentityBuffer == Buffer(0, 3, "b", Cells(3, 1))

NextIdentity ==
    \/ Start
    \/ Finish
    \/ IdentityID
    \/ IdentityClick
    \/ IdentityList
    \/ IdentityBuffer

SpecIdentity == Init /\ [][NextIdentity]_vars

\* Wheel ticks and presses over a Text and a List placed one above the
\* other, in either order; the wrapped text has up to MaxRows line breaks.
Lines(n) == [i \in 1 .. 2 * n |-> IF i % 2 = 1 THEN 97 ELSE 10]

WheelTick == \E y \in RouterYs, b \in {MouseWheelUp, MouseWheelDown} : Mouse(1, y, b)
WheelPress == \E b \in RouterButtons : Mouse(1, 1, b)
WheelText == \E n \in 0 .. MaxRows : Text(0, 3, "t", Lines(n))
WheelList == \E n \in 0 .. MaxRows : List(0, 3, "l", Rows(n))

NextWheel ==
    \/ Start
    \/ Finish
    \/ WheelTick
    \/ WheelPress
    \/ WheelText
    \/ WheelList

SpecWheel == Init /\ [][NextWheel]_vars

\* Column groups nested up to MaxDepth deep, with Buttons of one or two rows
\* placed in them.
ColumnsStart == Len(columnStack) < MaxDepth /\ StartColumns(2)
ColumnsNext == /\ columnX + columnWidth < ScreenW
               /\ \E w \in {0, 1} : NextColumn(w)
ColumnsFinish == FinishColumns
ColumnsButton == \E h \in {1, 2} : Button(1, h, "a")

NextColumns ==
    \/ Start
    \/ Finish
    \/ ColumnsStart
    \/ ColumnsNext
    \/ ColumnsFinish
    \/ ColumnsButton

SpecColumns == Init /\ [][NextColumns]_vars

\* Texts in boxes of every small size, down to one cell, with and without a
\* label.
DrawText == \E w \in {0, 1}, h \in {1, 3}, l \in {"", "t"} :
               Text(w, h, l, Lines(1))

NextDraw ==
    \/ Start
    \/ Finish
    \/ DrawText

SpecDraw == Init /\ [][NextDraw]_vars

\* Style.Merge and GetBaseStyle applied to every pair of styles and to every
\* base table with rules for "a", "b" and "a.b".
Fields == {"FgColor", "BgColor", "FgStyle", "BgStyle"}
StylesOf(values) == [Fields -> values]

StyleMerge ==
    /\ last.op = "New"
    /\ \E a, b \in StylesOf({0, ColorRed, ColorGreen}) :
          last' = [op |-> "Merge", a |-> a, b |-> b,
                   res |-> Merge(a, b), self |-> Merge(a, a)]
    /\ UNCHANGED <<input, ident, layout, tallest, term, render, widgetState,
                   panicked, inFrame, caller, keyUsers, granted>>

StyleResolve ==
    /\ last.op = "New"
    /\ \E ra \in StylesOf({0, 1}), rb \in StylesOf({0, 2}),
          rab \in StylesOf({0, 3}), focused \in BOOLEAN :
          LET table == (Rule(<<"a">>, FALSE) :> ra) @@ (Rule(<<"b">>, FALSE) :> rb)
                       @@ (Rule(<<"a", "b">>, FALSE) :> rab)
          IN last' = [op |-> "GetBaseStyle", a |-> ra, b |-> rb, ab |-> rab,
                      res |-> GetBaseStyleIn(table, <<"a", "b">>, focused)]
    /\ UNCHANGED <<input, ident, layout, tallest, term, render, widgetState,
                   panicked, inFrame, caller, keyUsers, granted>>

NextStyle ==
    \/ StyleMerge
    \/ StyleResolve

SpecStyle == Init /\ [][NextStyle]_vars

\* Overrides pushed and popped while frames with one Text are built.
StackPush == /\ Len(styleStack) < MaxStack
             /\ \E f \in BOOLEAN :
                   PushStyle(Rule(<<"text", "text">>, f),
                             [Style0 EXCEPT !.FgColor = ColorRed])
StackPop == \E num \in 1 .. MaxStack : PopStyles(num)
StackFocus == \E id \in {"", "t"} : SetFocus(id)
StackText == Text(0, 3, "t", Lines(1))

NextStack ==
    \/ Start
    \/ Finish
    \/ StackPush
    \/ StackPop
    \/ StackFocus
    \/ StackText

SpecStack == Init /\ [][NextStack]_vars

\* Gauges of interior width 2 (the screen's) and 10, filled to every quarter.
Percents == {[num |-> n, den |-> 4] : n \in 0 .. 4}

GaugeFocus == \E id \in {"", "g"} : SetFocus(id)
GaugeDraw == \E w \in {0, 12}, l \in {"", "g"}, p \in Percents :
                Gauge(w, 3, l, p, <<>>)

NextGauge ==
    \/ Start
    \/ Finish
    \/ GaugeFocus
    \/ GaugeDraw

SpecGauge == Init /\ [][NextGauge]_vars

\* Typing into a focused Input 10 wide and 3 high: between two frames the
\* caller polls one key or character, and it keeps the text the call returns.
TypeFocus == ~inFrame /\ SetFocus("a")
TypeChar == /\ ~inFrame /\ nextState = InputState
            /\ \E ch \in {104, 105, 120} : Keyboard(0, ch)
TypeKey == /\ ~inFrame /\ nextState = InputState
           /\ \E key \in {KeyEnter, KeyArrowLeft} : Keyboard(key, 0)
TypeInput == Input(10, 3, "a", texts["a"]) /\ Len(texts'["a"]) <= TypeLen

NextTyping ==
    \/ Start
    \/ Finish
    \/ TypeFocus
    \/ TypeChar
    \/ TypeKey
    \/ TypeInput

SpecTyping == Init /\ [][NextTyping]_vars

\* Two Inputs in a frame with clicks, characters and keys in any
\* interleaving: the one without the focus sees every kind of event.
UnfocusedKeys == {KeyBackspace, KeyDelete, KeyArrowLeft}

UnfocusedKey == \E key \in UnfocusedKeys :
                   /\ ~inFrame /\ nextState.chPress = 0
                   /\ Keyboard(key, 0)
UnfocusedInput == \E l \in {"a", "b"} :
                     Input(0, 3, l, texts[l]) /\ Len(texts'[l]) <= FocusLen

NextUnfocused ==
    \/ Start
    \/ Finish
    \/ FocusClick
    \/ FocusRelease
    \/ FocusChar
    \/ UnfocusedKey
    \/ UnfocusedInput

SpecUnfocused == Init /\ [][NextUnfocused]_vars

\* Any number of mouse and keyboard events between two frames.
EventKeys == {<<0, 97>>, <<0, 98>>, <<KeyEnter, 0>>}

EventMouse == \E x \in RouterXs, y \in RouterYs,
                 b \in {MouseLeft, MouseRelease, MouseWheelUp} : Mouse(x, y, b)
EventKeyboard == \E e \in EventKeys : Keyboard(e[1], e[2])

NextEvents ==
    \/ Start
    \/ Finish
    \/ EventMouse
    \/ EventKeyboard
    \/ DoButton

SpecEvents == Init /\ [][NextEvents]_vars

\* ------------------------------------------------------------------ claims
Inside(st, b) ==
    /\ st.mouseX >= b.x /\ st.mouseX < b.x + b.w
    /\ st.mouseY >= b.y /\ st.mouseY < b.y + b.h
LeftPressIn(b) == curState.mouseButton = MouseLeft /\ Inside(curState, b)
Wheel == {MouseWheelUp, MouseWheelDown}

\* C1: a Mouse or Keyboard call never changes the input the frame's widgets
\* read (curState); that input changes only in Start, which makes it the
\* input buffered until then.
C1_SnapshotIsolation ==
    [][/\ last'.op \in {"Mouse", "Keyboard"} => curState' = curState
       /\ curState' # curState => last'.op = "Start" /\ curState' = nextState]_vars

\* an event buffered during a frame that the frame does not see
C1_Witness ==
    /\ inFrame /\ last.op = "Keyboard"
    /\ nextState.chPress = 97 /\ nextState.mouseButton = MouseLeft
    /\ curState = InputState

\* C3: after every Input call that returned, the persisted cursor index lies in
\* [0, len(text)] of the text the call returned.
C3_CursorInRange ==
    (last.op = "Input" /\ ~panicked) =>
        /\ widgetState[lastID].cPos >= 0
        /\ widgetState[lastID].cPos <= Len(last.res)

\* a click has put the cursor inside a text of three bytes
C3_Witness ==
    /\ last.op = "Input" /\ ~panicked
    /\ curState.mouseButton = MouseLeft
    /\ Len(last.res) = 3 /\ widgetState[lastID].cPos = 1

\* C5: Button returns true exactly when the frame's input holds a left press
\* inside its box, and then it holds the focus; a press is seen by one frame
\* only: Start empties the buffered input, so a frame begun with no forwarded
\* press buffered sees no button.
C5_ButtonClick ==
    /\ [](last.op = "Button" =>
            /\ last.res = LeftPressIn(lastBox)
            /\ last.res => focusID = lastID)
    /\ [][last'.op = "Start" =>
            /\ nextState' = InputState
            /\ nextState.mouseButton = MouseNone =>
                   curState'.mouseButton = MouseNone]_vars

\* a Button that returned true and took the focus
C5_Witness ==
    /\ last.op = "Button" /\ last.res /\ focusID = "a" /\ lastID = "a"
    /\ nextState.mouseButton = MouseNone

\* C6: Toggle returns the negation of the state passed in when the frame's
\* input holds a left press inside its box, and the state passed in otherwise.
C6_ToggleFlips ==
    last.op = "Toggle" =>
        /\ last.res = (IF LeftPressIn(lastBox) THEN ~last.arg ELSE last.arg)
        /\ toggles["b"] = last.res

\* a second click has taken the toggle back to false
C6_Witness ==
    last.op = "Toggle" /\ last.arg /\ ~last.res /\ ~toggles["b"]

\* C10: a Mouse call whose button is an ordinary one and equals the last
\* reported button (mouseState) writes nothing into the next input.
C10_HeldNotRedelivered ==
    [][(/\ last'.op = "Mouse"
        /\ mouseState' = mouseState
        /\ mouseState \notin Wheel) => nextState' = nextState]_vars

\* the press was seen by a frame, and a further call with the button held has
\* left the next input empty
C10_Witness ==
    /\ last.op = "Mouse" /\ mouseState = MouseLeft
    /\ curState.mouseButton = MouseLeft
    /\ nextState.mouseButton = MouseNone

WidgetOps == {"Button", "Toggle", "Input", "List", "SelectableList", "Buffer"}
Elems(q) == {q[i] : i \in DOMAIN q}

\* C2: the key or character event of a frame edits the text or the cursor of
\* at most one Input identity.
C2_OneConsumer == Cardinality(keyUsers) <= 1

\* C4: after every List, SelectableList or Buffer call the persisted vertical
\* scroll offset s satisfies 0 <= s <= max(0, N - H), N the rows passed and
\* H = h - 2 the interior height of the box placed.
C4_ScrollClamped ==
    (last.op \in {"List", "SelectableList", "Buffer"} /\ ~panicked) =>
        LET st == widgetState[last.key]
            sc == IF st.kind = "buffer" THEN st.yscroll ELSE st.scroll
        IN sc >= 0 /\ sc <= Max(0, last.n - (lastBox.h - 2))

\* C7: a SelectableList call whose frame holds a left press on visible row r,
\* with scroll offset s, returns the selection passed in with index r + s
\* removed if it was in it and added if it was not, every other index kept;
\* without such a press it returns the selection passed in.
C7_RowToggles ==
    (last.op = "SelectableList" /\ ~panicked) =>
        LET b == lastBox
            sc == widgetState[last.key].scroll
            r == curState.mouseY - (b.y + 1)
            onRow == /\ curState.mouseButton = MouseLeft
                     /\ curState.mouseX >= b.x + 1 /\ curState.mouseX <= b.x + b.w - 2
                     /\ r >= 0 /\ r < b.h - 2 /\ r + sc < last.n
            old == Elems(last.arg)
        IN IF onRow
           THEN /\ Elems(last.res) = IF r + sc \in old THEN old \ {r + sc}
                                      ELSE old \cup {r + sc}
                /\ Len(last.res) = Cardinality(Elems(last.res))
           ELSE last.res = last.arg

\* a second click on row 2 (no scroll) has removed index 2, index 0 kept
C7_Witness ==
    /\ last.op = "SelectableList" /\ ~panicked
    /\ widgetState["s"].scroll = 0
    /\ curState.mouseButton = MouseLeft /\ curState.mouseX = 1 /\ curState.mouseY = 3
    /\ Elems(last.arg) = {0, 2} /\ last.res = <<0>>

\* C8: a widget reports focus only if a left press has landed inside its box
\* or SetFocus was called with its identity.
C8_FocusOnlyByClick ==
    (last.op \in WidgetOps /\ Focus) => lastID \in granted

\* C9: a stateful widget call creates and changes persisted state under the
\* identity it resolved to and under no other key, and consumes the override.
C9_StateKeyedByIdentity ==
    [][(last'.op \in {"Input", "List", "SelectableList", "Buffer"} /\ ~panicked') =>
          /\ nextID' = ""
          /\ lastID' \in DOMAIN widgetState'
          /\ \A k \in DOMAIN widgetState' \ {lastID'} :
                k \in DOMAIN widgetState /\ widgetState'[k] = widgetState[k]]_vars

\* the number of line breaks in a wrapped text
Breaks(wrapped) == Cardinality({i \in DOMAIN wrapped : wrapped[i] = 10})
WheelIn(b, button) == curState.mouseButton = button /\ Inside(curState, b)

\* every Mouse call with a wheel button is forwarded into the next input
WheelForwarded ==
    (last'.op = "Mouse" /\ mouseState' \in Wheel) =>
        nextState'.mouseButton = mouseState'

\* C11 (as stated): every wheel tick is forwarded, each tick is observed by
\* exactly one frame (a buffered tick stays in the next input until Start
\* hands it to a frame), and a Text under the pointer makes one scroll step
\* per tick.
C11_WheelOncePerTick ==
    [][/\ WheelForwarded
       /\ nextState.mouseButton \in Wheel =>
             \/ last'.op = "Start" /\ curState' = nextState
             \/ nextState' = nextState
       /\ (last'.op = "Text" /\ WheelIn(lastBox', MouseWheelUp)) =>
             widgetState'["t"].scroll = last'.was - 1
       /\ (last'.op = "Text" /\ WheelIn(lastBox', MouseWheelDown)) =>
             widgetState'["t"].scroll = last'.was + 1]_vars

\* C11 (amended): every wheel tick is forwarded whatever the last reported
\* button; a buffered tick leaves the next input only by Start, which hands it
\* to that one frame and empties the buffer, or by a later forwarded Mouse call
\* that replaces it; in its frame a Text under the pointer steps its scroll
\* offset by one up when the offset is positive, by one down when wrapped lines
\* remain below the box, and not at all otherwise; a List ignores the tick.
C11_WheelForwardedOnce ==
    [][/\ WheelForwarded
       /\ nextState.mouseButton \in Wheel =>
             \/ last'.op = "Start" /\ curState' = nextState /\ nextState' = InputState
             \/ last'.op = "Mouse" /\ nextState'.mouseButton = mouseState'
             \/ nextState' = nextState
       /\ (last'.op = "Text" /\ WheelIn(lastBox', MouseWheelUp)) =>
             widgetState'["t"].scroll = Max(last'.was - 1, 0)
       /\ (last'.op = "Text" /\ WheelIn(lastBox', MouseWheelDown)) =>
             widgetState'["t"].scroll =
                 IF Breaks(last'.arg) >= 1
                    /\ Breaks(last'.arg) - last'.was >= lastBox'.h - 2
                 THEN last'.was + 1 ELSE last'.was
       /\ (last'.op = "Text" /\ curState.mouseButton \in Wheel
           /\ ~Inside(curState, lastBox')) =>
             widgetState'["t"].scroll = last'.was
       /\ (last'.op = "List" /\ curState.mouseButton \in Wheel
           /\ "l" \in DOMAIN widgetState) =>
             widgetState'["l"].scroll = widgetState["l"].scroll]_vars

\* two ticks of the same wheel button, one a frame, have scrolled the Text twice
C11_Witness ==
    /\ last.op = "Text" /\ WheelIn(lastBox, MouseWheelDown)
    /\ mouseState = MouseWheelDown
    /\ last.was = 1 /\ widgetState["t"].scroll = 2

\* C12: after a FinishColumns() that closed a group in which a box was placed,
\* the layout cursor's y is the lowest bottom edge of the boxes placed since
\* the matching StartColumns(), at any nesting depth, and the column left by
\* StartColumns() is the current one again.
C12_FinishAtTallest ==
    (last.op = "FinishColumns" /\ ~panicked /\ last.group.bottom > 0) =>
        /\ yPos = last.group.bottom
        /\ xPos = last.group.x
        /\ columnX = last.group.x /\ columnWidth = last.group.w

\* C13: every cell a widget call sets for its border, label brackets, scroll
\* glyphs and content lies inside the box it placed, whatever the box's size.
C13_CellsInsideBox ==
    (last.op = "Text" /\ ~panicked) =>
        \A c \in cells :
            /\ lastBox.x <= c.x /\ c.x < lastBox.x + lastBox.w
            /\ lastBox.y <= c.y /\ c.y < lastBox.y + lastBox.h

\* C14 (as stated): with base rules for "a" and "a.b", resolving "a.b" gives
\* each field the value of rule "a.b" where that rule sets it and the value of
\* rule "a" where it does not.
C14_FallsBackToParent ==
    last.op = "GetBaseStyle" =>
        \A f \in Fields :
            last.res[f] = IF last.ab[f] # 0 THEN last.ab[f] ELSE last.a[f]

\* C14 (amended): with base rules for "a", "b" and "a.b", resolving "a.b"
\* gives each field the value of rule "a.b" where that rule sets it and the
\* value of rule "b", the class path with its leading segment stripped, where
\* it does not; rule "a" is not consulted.
C14_FallsBackToSuffix ==
    last.op = "GetBaseStyle" =>
        \A f \in Fields :
            last.res[f] = IF last.ab[f] # 0 THEN last.ab[f] ELSE last.b[f]

\* "a.b" sets the foreground; the background comes from "b", not from "a"
C14_Witness ==
    /\ last.op = "GetBaseStyle"
    /\ last.ab.FgColor = 3 /\ last.ab.BgColor = 0
    /\ last.a.BgColor = 1 /\ last.b.BgColor = 2
    /\ last.res.FgColor = 3 /\ last.res.BgColor = 2

\* C15: a.Merge(a) = a, and each field of a.Merge(b) is a's where a sets it
\* and b's where a leaves it unset.
C15_MergeReceiverWins ==
    last.op = "Merge" =>
        /\ last.self = last.a
        /\ \A f \in Fields :
              last.res[f] = IF last.a[f] # 0 THEN last.a[f] ELSE last.b[f]

\* both styles set the foreground, only the argument sets the background
C15_Witness ==
    /\ last.op = "Merge"
    /\ last.a.FgColor = ColorRed /\ last.b.FgColor = ColorGreen
    /\ last.a.BgColor = 0 /\ last.b.BgColor = ColorGreen
    /\ last.res.FgColor = ColorRed /\ last.res.BgColor = ColorGreen

\* C20: the override stack is empty after every Start(), so a rule pushed in
\* an earlier frame changes no style a later frame resolves.
C20_StackEmptyAfterStart ==
    last.op = "Start" =>
        /\ styleStack = <<>>
        /\ \A f \in BOOLEAN :
              GetStyleFor(<<"text", "text">>, f) = [Fg |-> 0, Bg |-> 0]

\* C16: a Gauge of interior width W = w - 2 whose percent * W is a whole number
\* draws that many interior columns, the leftmost ones, in the gauge.bar.on
\* style and the others in the gauge.bar.off style (5 and 5 for 0.5 of 10).
C16_GaugeFill ==
    last.op = "Gauge" =>
        LET W == lastBox.w - 2
            p == last.percent
            on == {c \in cells : /\ c.y = lastBox.y + 1
                                 /\ c.x > lastBox.x /\ c.x < lastBox.x + lastBox.w - 1
                                 /\ c.bg = ColorRed}
        IN (p.num * W) % p.den = 0 =>
              /\ Cardinality(on) * p.den = p.num * W
              /\ \A c \in on : c.x - lastBox.x <= Cardinality(on)

\* the cursor an Input call on text starts from: the persisted one, or the end
\* of the text on the identity's first call
CursorBefore(id, text) ==
    IF id \in DOMAIN widgetState THEN widgetState[id].cPos ELSE Len(text)
\* an Input call that returned, made with the focus and no press in its box
FocusedInputStep ==
    /\ last'.op = "Input" /\ ~panicked' /\ focusID' = lastID'
    /\ ~LeftPressIn(lastBox')

\* C17: in a focused Input every character, and Enter as a line break, is
\* inserted at the cursor index and moves the cursor one past it; so 'h', 'i',
\* Enter, 'x', one a frame from the empty text, give "hi\nx" with the cursor
\* at 4.
C17_TypedAtCursor ==
    [][(FocusedInputStep
        /\ (curState.chPress # 0 \/ curState.keyPress = KeyEnter)) =>
          LET c == CursorBefore(lastID', last'.arg)
              b == IF curState.chPress # 0 THEN curState.chPress ELSE 10
          IN /\ last'.res = SubSeq(last'.arg, 1, c) \o <<b>>
                            \o SubSeq(last'.arg, c + 1, Len(last'.arg))
             /\ widgetState'[lastID'].cPos = c + 1]_vars

\* "hi\nx" has been typed and the cursor is at 4
C17_Witness ==
    /\ last.op = "Input" /\ curState.chPress = 120
    /\ last.arg = <<104, 105, 10>>
    /\ texts["a"] = <<104, 105, 10, 120>>
    /\ widgetState["a"].cPos = 4

\* C18: in a focused Input an insert leaves the cursor at an index of at least
\* 1; ArrowLeft from an index of at least 1 moves it one back and ArrowRight
\* from an index below len(text) one forward, the text unchanged, so the two
\* in turn bring it back to where the insert left it; Backspace at index 0
\* changes neither text nor cursor.
C18_CursorRoundTrip ==
    [][(FocusedInputStep /\ lastID' \in DOMAIN widgetState) =>
          LET c == widgetState[lastID'].cPos
              c1 == widgetState'[lastID'].cPos
              key == curState.keyPress
          IN IF curState.chPress # 0
             THEN c1 = c + 1 /\ Len(last'.res) = Len(last'.arg) + 1
             ELSE /\ (key = KeyArrowLeft /\ c >= 1) =>
                        c1 = c - 1 /\ last'.res = last'.arg
                  /\ (key = KeyArrowRight /\ c < Len(last'.arg)) =>
                        c1 = c + 1 /\ last'.res = last'.arg
                  /\ (key \in {KeyBackspace, KeyBackspace2} /\ c = 0) =>
                        c1 = 0 /\ last'.res = last'.arg]_vars

\* ArrowRight has moved the cursor forward inside a text of three bytes
C18_Witness ==
    /\ last.op = "Input" /\ ~panicked /\ focusID = lastID
    /\ curState.keyPress = KeyArrowRight /\ curState.chPress = 0
    /\ Len(last.res) = 3 /\ widgetState[lastID].cPos = 2

\* C19: a focused Input call handling a key or character never ends in an
\* out-of-range access: it returns, and Delete with the cursor at len(text)
\* leaves the text unchanged.
C19_NoOutOfRange ==
    last.op = "Input" => ~panicked

\* C21: an Input call whose identity is not the focused one and whose box holds
\* no left press returns the text it was given and leaves the persisted cursor
\* where it was, brought into [0, len(text)], whatever key or character the
\* frame's input carries.
C21_UnfocusedUnaffected ==
    [][(/\ last'.op = "Input"
        /\ focusID # lastID'
        /\ ~LeftPressIn(lastBox')) =>
          LET c == CursorBefore(lastID', last'.arg)
          IN /\ ~panicked'
             /\ last'.res = last'.arg
             /\ focusID' = focusID
             /\ widgetState'[lastID'].cPos =
                   IF c < 0 THEN 0
                   ELSE IF c > Len(last'.arg) THEN Len(last'.arg) ELSE c]_vars

\* an Input holding a typed character is called without the focus in a frame
\* that carries a key
C21_Witness ==
    /\ last.op = "Input" /\ ~panicked /\ focusID # lastID
    /\ ~LeftPressIn(lastBox)
    /\ curState.keyPress = KeyBackspace
    /\ last.arg = <<97>> /\ last.res = <<97>>
    /\ widgetState[lastID].cPos = 1

\* C22: every Keyboard call replaces the whole buffered key event and every
\* forwarded Mouse call the whole buffered mouse event, neither touching the
\* other's fields and a dropped Mouse call touching nothing; Start() hands the
\* buffer to the frame and empties it, and no other call changes either, so a
\* frame observes the last event of each kind since the previous Start(), no
\* earlier one, and the empty input state when there was none.
C22_LastEventReachesFrame ==
    [][/\ last'.op = "Keyboard" =>
             /\ nextState' = [nextState EXCEPT !.keyPress = last'.key,
                                               !.chPress = last'.ch]
             /\ curState' = curState
       /\ last'.op = "Mouse" =>
             /\ curState' = curState
             /\ IF \/ mouseState # last'.button
                   \/ last'.button \in {MouseWheelUp, MouseWheelDown}
                THEN /\ Len(last'.at) = 2
                     /\ nextState' = [nextState EXCEPT
                                         !.mouseX = last'.at[1],
                                         !.mouseY = last'.at[2],
                                         !.mouseButton = last'.button]
                ELSE nextState' = nextState
       /\ last'.op = "Start" => curState' = nextState /\ nextState' = InputState
       /\ last'.op \notin {"Keyboard", "Mouse", "Start"} =>
             UNCHANGED <<curState, nextState>>]_vars

\* a second Keyboard call has replaced a buffered Enter by the character 'b'
\* while a left press waits in the same buffer
C22_Witness ==
    /\ last.op = "Keyboard" /\ last.replaced /\ last.ch = 98
    /\ nextState.keyPress = 0 /\ nextState.chPress = 98
    /\ nextState.mouseButton = MouseLeft
    /\ curState = InputState /\ inFrame

====
